---- MODULE Spec2Model ----
(***************************************************************************)
(* Detection-evaluation engine of LAD_Project: evaluate_model and          *)
(* calculate_iou of src/old/test2.py (src/old/test.py holds the same loop  *)
(* without the timing and monitoring lines).                               *)
(*                                                                         *)
(* Numbers.  Box coordinates are integers.  Confidences and thresholds are *)
(* tenths (9 is 0.9).  The code's float quotients are kept exact: a value  *)
(* is a pair <<n, d>> of fixed-point numbers, and a fixed-point number is  *)
(* a sequence <<c1, c2, ...>> of digits in base 10^6 standing for          *)
(* c1 + c2*1e-6 + c3*1e-12 + ..., so that the code's epsilon 1e-6 is the   *)
(* number <<0, 1>>.  Rounding of IEEE doubles is not modelled.             *)
(***************************************************************************)
EXTENDS Integers, Sequences, FiniteSets, TLC

VARIABLES
    iou_threshold,    \* parameter of evaluate_model, in tenths
    conf_threshold,   \* parameter of evaluate_model, in tenths
    pc,               \* position in evaluate_model
    nsamples,         \* samples the for loop has drawn from the dataset
    gt_boxes,         \* data['boxes'] of the current sample
    results,          \* detector output of the current sample: <<box, conf>> pairs
    ri,               \* position of the filtering loop in results (1-based)
    pred_boxes,       \* retained boxes of the current sample
    pred_confs,       \* retained confidences of the current sample
    k,                \* position of the matching loop in pred_boxes (1-based)
    gt_matched,       \* per ground-truth box: already matched
    last_iou,         \* the value calculate_iou returned last
    true_positives,
    false_positives,
    false_negatives,
    matches,
    confidences,
    precision,
    recall,
    f1_score,
    map_score,
    processing_times, \* one entry per predict call that returned (durations are not modelled)
    cpu_usage,        \* SystemMonitor.cpu_usage: one reading per sample() call (readings are not modelled)
    dataset,          \* the dataset evaluate_model was called on, when it is fixed in advance
    first,            \* outcome of the evaluation of the dataset in its first order
    predict_calls,    \* history: invocations of model.predict
    boxes_seen,       \* history: ground-truth boxes of the samples predict returned for
    preds_seen,       \* history: detector predictions drawn so far
    kept,             \* history: detector predictions seen so far with conf >= conf_threshold
    fixture,          \* history: samples drawn so far follow the end-to-end fixture (-1: no)
    monitor_class,    \* the class of the monitor: "PowerMonitor" or "SystemUtilizationMonitor"
    sampling_interval, \* seconds between two measurements of a monitoring thread
    monitoring,       \* self.monitoring
    start_time,       \* self.start_time, in seconds of the clock
    timestamps,       \* self.timestamps
    threads,          \* the _monitoring_loop threads started so far; self.monitor_thread is the last
    caller,           \* position of the thread that calls start_monitoring and stop_monitoring
    join_deadline,    \* when the join of stop_monitoring gives up
    now,              \* time.time(), in seconds
    taken_at          \* history: the time.time() each entry of timestamps was measured at

vars == <<iou_threshold, conf_threshold, pc, nsamples, gt_boxes, results, ri,
          pred_boxes, pred_confs, k, gt_matched, last_iou, true_positives, false_positives,
          false_negatives, matches, confidences, precision, recall, f1_score,
          map_score, processing_times, cpu_usage, dataset, first, predict_calls,
          boxes_seen, preds_seen, kept, fixture,
          monitor_class, sampling_interval, monitoring, start_time, timestamps,
          threads, caller, join_deadline, now, taken_at>>

evalVars == <<iou_threshold, conf_threshold, pc, nsamples, gt_boxes, results, ri,
              pred_boxes, pred_confs, k, gt_matched, last_iou, true_positives,
              false_positives, false_negatives, matches, confidences, precision,
              recall, f1_score, map_score, processing_times, cpu_usage, dataset,
              first, predict_calls, boxes_seen, preds_seen, kept, fixture>>

monitorVars == <<monitor_class, sampling_interval, monitoring, start_time, timestamps,
                 threads, caller, join_deadline, now, taken_at>>

----------------------------------------------------------------------------
(* Bounds of the model *)

MaxSamples == 2    \* samples of the dataset
MaxBoxes == 2      \* ground-truth boxes of the dataset, all samples together
MaxPreds == 2      \* predictions the detector returns, all samples together
MaxCount == 5      \* the counts the metrics are computed from, when drawn freely
MaxCoord == 2      \* the coordinates of the boxes calculate_iou is called on, when called alone
MaxStarts == 2     \* calls of start_monitoring that start a thread
MaxStamps == 3     \* entries of timestamps
MaxTime == 4       \* seconds the clock runs for

(* The boxes, confidences and thresholds the inputs are drawn from *)
BoxA == <<0, 0, 10, 10>>
BoxB == <<0, 0, 5, 5>>
BoxC == <<20, 20, 30, 30>>
Boxes == {BoxA, BoxB, BoxC}
Confs == {8, 9}
IouThresholds == {0, 5}
ConfThresholds == {3, 9}

RECURSIVE SeqsUpTo(_, _)
SeqsUpTo(S, n) ==
    IF n = 0 THEN {<<>>}
    ELSE LET shorter == SeqsUpTo(S, n - 1)
         IN  shorter \cup {Append(s, x) : s \in {t \in shorter : Len(t) = n - 1}, x \in S}

AllGtSets == SeqsUpTo(Boxes, MaxBoxes)
AllResultSets == SeqsUpTo(Boxes \X Confs, MaxPreds)
GtSets(n) == {gt \in AllGtSets : Len(gt) <= n}
ResultSets(n) == {res \in AllResultSets : Len(res) <= n}

E2EDataset ==
    << [boxes |-> <<BoxA>>, preds |-> << <<BoxA, 9>> >>],
       [boxes |-> <<BoxB, BoxC>>, preds |-> << <<BoxB, 8>> >>] >>

----------------------------------------------------------------------------
(* Exact arithmetic for the float expressions of the code *)

EpsInv == 1000000

Max(a, b) == IF a >= b THEN a ELSE b
Min(a, b) == IF a <= b THEN a ELSE b

Digit(a, i) == IF i <= Len(a) THEN a[i] ELSE 0

RECURSIVE FxCarry(_, _)
FxCarry(a, i) ==
    IF i <= 1 THEN a
    ELSE FxCarry([a EXCEPT ![i] = a[i] % EpsInv,
                           ![i - 1] = a[i - 1] + (a[i] \div EpsInv)], i - 1)

FxNorm(a) == FxCarry(a, Len(a))

FxAdd(a, b) == FxNorm([i \in 1..Max(Len(a), Len(b)) |-> Digit(a, i) + Digit(b, i)])

RECURSIVE Conv(_, _, _, _)
Conv(a, b, n, i) ==
    IF i > Len(a) THEN 0
    ELSE (IF n - i + 1 >= 1 /\ n - i + 1 <= Len(b) THEN a[i] * b[n - i + 1] ELSE 0)
         + Conv(a, b, n, i + 1)

FxMul(a, b) == FxNorm([n \in 1..(Len(a) + Len(b) - 1) |-> Conv(a, b, n, 1)])

RECURSIVE FxLessFrom(_, _, _)
FxLessFrom(a, b, i) ==
    IF i > Max(Len(a), Len(b)) THEN FALSE
    ELSE IF Digit(a, i) < Digit(b, i) THEN TRUE
    ELSE IF Digit(a, i) > Digit(b, i) THEN FALSE
    ELSE FxLessFrom(a, b, i + 1)

FxLess(a, b) == FxLessFrom(a, b, 1)
FxLeq(a, b) == ~FxLess(b, a)
FxIsZero(a) == \A i \in 1..Len(a) : a[i] = 0

Eps == <<0, 1>>
FxInt(n) == <<n>>

(* quotients <<n, d>> *)
QInt(n) == <<FxInt(n), FxInt(1)>>
QTenths(t) == <<FxInt(t), FxInt(10)>>
QLess(p, q) == FxLess(FxMul(p[1], q[2]), FxMul(q[1], p[2]))
QLeq(p, q) == ~QLess(q, p)
QDefined(q) == ~FxIsZero(q[2])
QIsZero(q) == FxIsZero(q[1]) /\ ~FxIsZero(q[2])

----------------------------------------------------------------------------
(* calculate_iou *)

calculate_iou_no_eps(box1, box2) ==
    LET x1 == Max(box1[1], box2[1])
        y1 == Max(box1[2], box2[2])
        x2 == Min(box1[3], box2[3])
        y2 == Min(box1[4], box2[4])
        inter_area == Max(0, x2 - x1) * Max(0, y2 - y1)
        box1_area == (box1[3] - box1[1]) * (box1[4] - box1[2])
        box2_area == (box2[3] - box2[1]) * (box2[4] - box2[2])
    IN  <<FxInt(inter_area), FxInt(box1_area + box2_area - inter_area)>>

calculate_iou(box1, box2) ==
    LET x1 == Max(box1[1], box2[1])
        y1 == Max(box1[2], box2[2])
        x2 == Min(box1[3], box2[3])
        y2 == Min(box1[4], box2[4])
        inter_area == Max(0, x2 - x1) * Max(0, y2 - y1)
        box1_area == (box1[3] - box1[1]) * (box1[4] - box1[2])
        box2_area == (box2[3] - box2[1]) * (box2[4] - box2[2])
    IN  <<FxInt(inter_area), FxAdd(FxInt(box1_area + box2_area - inter_area), Eps)>>

----------------------------------------------------------------------------
(* The matching of one prediction: the inner loop over gt_boxes *)

IouGreater(iou, best_iou) == QLess(best_iou, iou)

RECURSIVE BestLoop(_, _, _, _)
BestLoop(pred_box, gt, i, best) ==
    IF i > Len(gt) THEN best
    ELSE LET iou == calculate_iou(pred_box, gt[i])
         IN  IF IouGreater(iou, best.best_iou)
             THEN BestLoop(pred_box, gt, i + 1, [best_iou |-> iou, best_gt_idx |-> i - 1])
             ELSE BestLoop(pred_box, gt, i + 1, best)

RECURSIVE BestLoopUnmatched(_, _, _, _)
BestLoopUnmatched(pred_box, gt, i, best) ==
    IF i > Len(gt) THEN best
    ELSE LET iou == calculate_iou(pred_box, gt[i])
         IN  IF ~gt_matched[i] /\ IouGreater(iou, best.best_iou)
             THEN BestLoopUnmatched(pred_box, gt, i + 1,
                                    [best_iou |-> iou, best_gt_idx |-> i - 1])
             ELSE BestLoopUnmatched(pred_box, gt, i + 1, best)

BestMatchUnmatched(pred_box, gt) ==
    BestLoopUnmatched(pred_box, gt, 1, [best_iou |-> QInt(0), best_gt_idx |-> -1])

BestMatch(pred_box, gt) == BestLoop(pred_box, gt, 1, [best_iou |-> QInt(0), best_gt_idx |-> -1])

(* numpy indexing of an array of length n with a Python index: a negative   *)
(* index counts from the end, an index outside -n..n-1 raises IndexError.   *)
IndexInRange(idx, n) == -n <= idx /\ idx < n
IndexPos(idx, n) == IF idx >= 0 THEN idx + 1 ELSE n + idx + 1

MeetsIou(best_iou) == QLeq(QTenths(iou_threshold), best_iou)

RaisesIndexError(best, matched) ==
    MeetsIou(best.best_iou) /\ ~IndexInRange(best.best_gt_idx, Len(matched))

IsTruePositiveUnchecked(best, matched) == MeetsIou(best.best_iou)

IsTruePositive(best, matched) ==
    MeetsIou(best.best_iou) /\ ~matched[IndexPos(best.best_gt_idx, Len(matched))]

RetainedStrict(conf) == conf > conf_threshold
RetainedAll(conf) == TRUE

Retained(conf) == conf >= conf_threshold

CountMatched(matched) == Cardinality({i \in 1..Len(matched) : matched[i]})

CountUnmatched(matched) == Cardinality({i \in 1..Len(matched) : ~matched[i]})

AssignFalseNegatives(fn, matched) == CountUnmatched(matched)

AddFalseNegatives(fn, matched) == fn + CountUnmatched(matched)

----------------------------------------------------------------------------
(* Precision, recall and F1 *)

QMul(p, q) == <<FxMul(p[1], q[1]), FxMul(p[2], q[2])>>
QAdd(p, q) == <<FxAdd(FxMul(p[1], q[2]), FxMul(q[1], p[2])), FxMul(p[2], q[2])>>
QDiv(p, q) == <<FxMul(p[1], q[2]), FxMul(p[2], q[1])>>
QEps == <<Eps, FxInt(1)>>

PrecisionNoEps(tp, fp) == QDiv(QInt(tp), QInt(tp + fp))
RecallOverFp(tp, fn) == QDiv(QInt(tp), QAdd(QInt(tp), QEps))

Precision(tp, fp) == QDiv(QInt(tp), QAdd(QInt(tp + fp), QEps))
Recall(tp, fn) == QDiv(QInt(tp), QAdd(QInt(tp + fn), QEps))
F1Score(p, r) == QDiv(QMul(QInt(2), QMul(p, r)), QAdd(QAdd(p, r), QEps))

NoValue == <<>>

----------------------------------------------------------------------------
(* calculate_map *)

(* fractions <<n, d>> of naturals, d > 0: the ratios of counts the curve is *)
(* made of                                                                   *)
RECURSIVE GCD(_, _)
GCD(a, b) == IF b = 0 THEN a ELSE GCD(b, a % b)
FracLess(p, q) == p[1] * q[2] < q[1] * p[2]
FracAdd(p, q) ==
    LET n == p[1] * q[2] + q[1] * p[2]
        d == p[2] * q[2]
    IN  <<n \div GCD(n, d), d \div GCD(n, d)>>
MaxFrac(S) == CHOOSE p \in S : \A q \in S : ~FracLess(p, q)

(* precision_recall_curve(matches, confidences) of sklearn.metrics: one     *)
(* point per distinct confidence c, from the records with confidence >= c   *)
(* (precision tps / (tps + fps), recall tps / number of labels 1), and the   *)
(* closing point of precision 1 and recall 0.  Without any label 1 the       *)
(* recall of a point is 1 (nan in older releases, which keeps the point out  *)
(* of every mask; its precision is 0, so calculate_map returns the same).    *)
CurvePointWithMisses(ms, confs, c) ==
    LET above == {i \in 1..Len(ms) : confs[i] >= c}
        tps == Cardinality({i \in above : ms[i] = 1})
        positives == Cardinality({i \in 1..Len(ms) : ms[i] = 1}) + false_negatives
    IN  [p |-> <<tps, Cardinality(above)>>,
         r |-> IF positives = 0 THEN <<1, 1>> ELSE <<tps, positives>>]

CurvePoint(ms, confs, c) ==
    LET above == {i \in 1..Len(ms) : confs[i] >= c}
        tps == Cardinality({i \in above : ms[i] = 1})
        positives == Cardinality({i \in 1..Len(ms) : ms[i] = 1})
    IN  [p |-> <<tps, Cardinality(above)>>,
         r |-> IF positives = 0 THEN <<1, 1>> ELSE <<tps, positives>>]

precision_recall_curve(ms, confs) ==
    {CurvePoint(ms, confs, confs[i]) : i \in 1..Len(confs)}
        \cup {[p |-> <<1, 1>>, r |-> <<0, 1>>]}

(* np.linspace(0, 1, 11), in tenths *)
RecallThresholds == 0..10

InMaskStrict(pt, t) == pt.r[1] * 10 > t * pt.r[2]

(* mask = recall >= t *)
InMask(pt, t) == pt.r[1] * 10 >= t * pt.r[2]

(* what one recall threshold adds to map_score: np.max(precision[mask]) if *)
(* mask.any()                                                               *)
InterpolatedPrecision(curve, t) ==
    LET mask == {pt \in curve : InMask(pt, t)}
    IN  IF mask = {} THEN <<0, 1>> ELSE MaxFrac({pt.p : pt \in mask})

RECURSIVE SumInterpolated(_, _)
SumInterpolated(curve, T) ==
    IF T = {} THEN <<0, 1>>
    ELSE LET t == CHOOSE x \in T : TRUE
         IN  FracAdd(InterpolatedPrecision(curve, t), SumInterpolated(curve, T \ {t}))

calculate_map(ms, confs) ==
    IF Len(ms) = 0 \/ Len(confs) = 0 THEN QInt(0)
    ELSE LET sum == SumInterpolated(precision_recall_curve(ms, confs), RecallThresholds)
         IN  <<FxInt(sum[1]), FxInt(sum[2] * Cardinality(RecallThresholds))>>

----------------------------------------------------------------------------
(* SystemMonitor *)

(* get_statistics: np.min(self.cpu_usage) raises ValueError on an empty list *)
GetStatisticsRaises(usage) == Len(usage) = 0

----------------------------------------------------------------------------
(* PowerMonitor and SystemUtilizationMonitor: start_monitoring,            *)
(* stop_monitoring and the _monitoring_loop threads.  Time is in whole      *)
(* seconds.  A thread takes no time for its statements, except that          *)
(* PowerMonitor's measurement waits for the nvidia-smi subprocess, for any   *)
(* time, and time.sleep lasts sampling_interval.                             *)

MonitorClasses == {"PowerMonitor", "SystemUtilizationMonitor"}
SamplingIntervals == {1, 3}

(* self.monitor_thread.join(timeout=2.0) *)
JoinTimeout == 2

(* __init__ *)
NewMonitor(cls, interval) ==
    /\ monitor_class = cls
    /\ sampling_interval = interval
    /\ monitoring = FALSE
    /\ start_time = 0
    /\ timestamps = <<>>
    /\ threads = <<>>
    /\ caller = "idle"
    /\ join_deadline = 0
    /\ now = 0
    /\ taken_at = <<>>

(* the evaluation uses neither monitor *)
NoMonitor == NewMonitor("PowerMonitor", 1)

ResetsLists == monitor_class = "SystemUtilizationMonitor"
MeasurementBlocks == monitor_class = "PowerMonitor"

Alive(i) == threads[i].pc # "done"

(* start_monitoring, when self.monitoring is False (it returns False and    *)
(* changes nothing otherwise)                                                *)
StartMonitoring ==
    /\ caller = "idle"
    /\ ~monitoring
    /\ Len(threads) < MaxStarts
    /\ monitoring' = TRUE
    /\ start_time' = now
    /\ timestamps' = IF ResetsLists THEN <<>> ELSE timestamps
    /\ taken_at' = IF ResetsLists THEN <<>> ELSE taken_at
    /\ threads' = Append(threads, [pc |-> "test", current_time |-> 0, wake |-> 0])
    /\ UNCHANGED <<monitor_class, sampling_interval, caller, join_deadline, now>>
    /\ UNCHANGED evalVars

(* stop_monitoring, when self.monitoring is True, up to the join *)
StopMonitoring ==
    /\ caller = "idle"
    /\ monitoring
    /\ monitoring' = FALSE
    /\ caller' = "join"
    /\ join_deadline' = now + JoinTimeout
    /\ UNCHANGED <<monitor_class, sampling_interval, start_time, timestamps, threads,
                   now, taken_at>>
    /\ UNCHANGED evalVars

(* the join returns because the thread has ended *)
JoinReturns ==
    /\ caller = "join"
    /\ ~Alive(Len(threads))
    /\ caller' = "idle"
    /\ UNCHANGED <<monitor_class, sampling_interval, monitoring, start_time, timestamps,
                   threads, join_deadline, now, taken_at>>
    /\ UNCHANGED evalVars

(* the join gives up after its timeout, the thread is still alive *)
JoinTimesOut ==
    /\ caller = "join"
    /\ Alive(Len(threads))
    /\ now >= join_deadline
    /\ caller' = "idle"
    /\ UNCHANGED <<monitor_class, sampling_interval, monitoring, start_time, timestamps,
                   threads, join_deadline, now, taken_at>>
    /\ UNCHANGED evalVars

(* while self.monitoring: *)
LoopTest ==
    /\ \E i \in DOMAIN threads :
          /\ threads[i].pc = "test"
          /\ monitoring => Len(timestamps) < MaxStamps
          /\ threads' = [threads EXCEPT ![i].pc = IF monitoring THEN "measure" ELSE "done"]
    /\ UNCHANGED <<monitor_class, sampling_interval, monitoring, start_time, timestamps,
                   caller, join_deadline, now, taken_at>>
    /\ UNCHANGED evalVars

(* power_data = self._get_power_usage(), or utilization =                   *)
(* self._get_system_utilization() and current_time = time.time() -           *)
(* self.start_time                                                           *)
Measure ==
    /\ \E i \in DOMAIN threads :
          /\ threads[i].pc = "measure"
          /\ threads' = [threads EXCEPT ![i].pc = "append",
                                        ![i].current_time =
                                            IF ResetsLists THEN now - start_time ELSE 0]
    /\ UNCHANGED <<monitor_class, sampling_interval, monitoring, start_time, timestamps,
                   caller, join_deadline, now, taken_at>>
    /\ UNCHANGED evalVars

(* self.timestamps.append(...); time.sleep(self.sampling_interval) begins *)
AppendSample ==
    /\ \E i \in DOMAIN threads :
          /\ threads[i].pc = "append"
          /\ timestamps' = Append(timestamps,
                                  IF ResetsLists THEN threads[i].current_time
                                                 ELSE now - start_time)
          /\ threads' = [threads EXCEPT ![i].pc = "sleep",
                                        ![i].wake = now + sampling_interval]
    /\ taken_at' = Append(taken_at, now)
    /\ UNCHANGED <<monitor_class, sampling_interval, monitoring, start_time, caller,
                   join_deadline, now>>
    /\ UNCHANGED evalVars

(* time.sleep returns *)
WakeUp ==
    /\ \E i \in DOMAIN threads :
          /\ threads[i].pc = "sleep"
          /\ now >= threads[i].wake
          /\ threads' = [threads EXCEPT ![i].pc = "test"]
    /\ UNCHANGED <<monitor_class, sampling_interval, monitoring, start_time, timestamps,
                   caller, join_deadline, now, taken_at>>
    /\ UNCHANGED evalVars

(* a thread that lets time pass: ended, asleep, or waiting for nvidia-smi *)
Waiting(i) ==
    \/ ~Alive(i)
    \/ threads[i].pc = "sleep" /\ now < threads[i].wake
    \/ threads[i].pc = "measure" /\ MeasurementBlocks

(* a second passes *)
Tick ==
    /\ now < MaxTime
    /\ \A i \in DOMAIN threads : Waiting(i)
    /\ caller = "join" => (Alive(Len(threads)) /\ now < join_deadline)
    /\ now' = now + 1
    /\ UNCHANGED <<monitor_class, sampling_interval, monitoring, start_time, timestamps,
                   threads, caller, join_deadline, taken_at>>
    /\ UNCHANGED evalVars

InitMonitor ==
    /\ \E cls \in MonitorClasses, interval \in SamplingIntervals : NewMonitor(cls, interval)
    /\ iou_threshold = 5
    /\ conf_threshold = 3
    /\ pc = "monitor"
    /\ nsamples = 0
    /\ gt_boxes = <<>>
    /\ results = <<>>
    /\ ri = 1
    /\ pred_boxes = <<>>
    /\ pred_confs = <<>>
    /\ k = 1
    /\ gt_matched = <<>>
    /\ last_iou = NoValue
    /\ true_positives = 0
    /\ false_positives = 0
    /\ false_negatives = 0
    /\ matches = <<>>
    /\ confidences = <<>>
    /\ precision = NoValue
    /\ recall = NoValue
    /\ f1_score = NoValue
    /\ map_score = NoValue
    /\ processing_times = <<>>
    /\ cpu_usage = <<>>
    /\ dataset = <<>>
    /\ first = NoValue
    /\ predict_calls = 0
    /\ boxes_seen = 0
    /\ preds_seen = 0
    /\ kept = 0
    /\ fixture = -1

NextMonitor ==
    \/ StartMonitoring
    \/ StopMonitoring
    \/ JoinReturns
    \/ JoinTimesOut
    \/ LoopTest
    \/ Measure
    \/ AppendSample
    \/ WakeUp
    \/ Tick

SpecMonitor == InitMonitor /\ [][NextMonitor]_vars

----------------------------------------------------------------------------
(* evaluate_model *)

Init ==
    /\ NoMonitor
    /\ iou_threshold \in IouThresholds
    /\ conf_threshold \in ConfThresholds
    /\ pc = "loop"
    /\ nsamples = 0
    /\ gt_boxes = <<>>
    /\ results = <<>>
    /\ ri = 1
    /\ pred_boxes = <<>>
    /\ pred_confs = <<>>
    /\ k = 1
    /\ gt_matched = <<>>
    /\ last_iou = NoValue
    /\ true_positives = 0
    /\ false_positives = 0
    /\ false_negatives = 0
    /\ matches = <<>>
    /\ confidences = <<>>
    /\ precision = NoValue
    /\ recall = NoValue
    /\ f1_score = NoValue
    /\ map_score = NoValue
    /\ processing_times = <<>>
    /\ cpu_usage = <<>>
    /\ dataset = <<>>
    /\ first = NoValue
    /\ predict_calls = 0
    /\ boxes_seen = 0
    /\ preds_seen = 0
    /\ kept = 0
    /\ fixture = IF iou_threshold = 5 /\ conf_threshold = 3 THEN 0 ELSE -1

(* The datasets of the model: every dataset within the bounds, and the     *)
(* two-sample end-to-end dataset E2EDataset, which the for loop may follow  *)
(* under its thresholds whatever the bounds are.                            *)
BoundedSamples ==
    IF nsamples < MaxSamples
    THEN {[boxes |-> gt, preds |-> res] :
             gt \in GtSets(MaxBoxes - boxes_seen), res \in ResultSets(MaxPreds - preds_seen)}
    ELSE {}

FixtureSamples ==
    IF fixture = nsamples /\ nsamples < Len(E2EDataset)
    THEN {E2EDataset[nsamples + 1]}
    ELSE {}

IterationRetry(data) ==
    /\ cpu_usage' = Append(cpu_usage, "reading")
    /\ gt_boxes' = data.boxes
    /\ results' = data.preds
    /\ predict_calls' = predict_calls + 2
    /\ processing_times' = Append(processing_times, "elapsed")
    /\ boxes_seen' = boxes_seen + Len(data.boxes)
    /\ preds_seen' = preds_seen + Len(data.preds)
    /\ kept' = kept + Cardinality({i \in 1..Len(data.preds) :
                                      data.preds[i][2] >= conf_threshold})
    /\ nsamples' = nsamples + 1
    /\ ri' = 1
    /\ pred_boxes' = <<>>
    /\ pred_confs' = <<>>
    /\ pc' = "filter"
    /\ UNCHANGED <<iou_threshold, conf_threshold, k, gt_matched, last_iou, true_positives,
                   false_positives, false_negatives, matches, confidences,
                   precision, recall, f1_score, map_score, first>>
    /\ UNCHANGED monitorVars

(* one turn of the for loop on the sample data, up to the detector's       *)
(* answer: system_monitor.sample(), gt_boxes = data['boxes'], results =     *)
(* model.predict(image), processing_times.append(...)                       *)
Iteration(data) ==
    /\ cpu_usage' = Append(cpu_usage, "reading")
    /\ gt_boxes' = data.boxes
    /\ results' = data.preds
    /\ predict_calls' = predict_calls + 1
    /\ processing_times' = Append(processing_times, "elapsed")
    /\ boxes_seen' = boxes_seen + Len(data.boxes)
    /\ preds_seen' = preds_seen + Len(data.preds)
    /\ kept' = kept + Cardinality({i \in 1..Len(data.preds) :
                                      data.preds[i][2] >= conf_threshold})
    /\ nsamples' = nsamples + 1
    /\ ri' = 1
    /\ pred_boxes' = <<>>
    /\ pred_confs' = <<>>
    /\ pc' = "filter"
    /\ UNCHANGED <<iou_threshold, conf_threshold, k, gt_matched, last_iou, true_positives,
                   false_positives, false_negatives, matches, confidences,
                   precision, recall, f1_score, map_score, first>>
    /\ UNCHANGED monitorVars

(* for data in dataset: the next sample, drawn freely *)
NextSample ==
    /\ pc = "loop"
    /\ \E data \in BoundedSamples \cup FixtureSamples :
          /\ Iteration(data)
          /\ fixture' = IF data \in FixtureSamples THEN fixture + 1 ELSE -1
    /\ UNCHANGED dataset

(* for data in dataset: cv2.imread returns None for an image that is        *)
(* missing or cannot be decoded, and cv2.cvtColor raises on it.              *)
ImageUnreadable ==
    /\ pc = "loop"
    /\ nsamples < MaxSamples
    /\ pc' = "cv2_error"
    /\ UNCHANGED <<iou_threshold, conf_threshold, nsamples, gt_boxes, results, ri,
                   pred_boxes, pred_confs, k, gt_matched, last_iou, true_positives,
                   false_positives, false_negatives, matches, confidences,
                   precision, recall, f1_score, map_score, processing_times,
                   cpu_usage, dataset, first, predict_calls, boxes_seen,
                   preds_seen, kept, fixture>>
    /\ UNCHANGED monitorVars

AfterPredictCaught == "filter"

(* where evaluate_model is after model.predict raised: there is no try      *)
(* around the call, the exception leaves evaluate_model.                     *)
AfterPredictRaised == "predict_error"

(* one turn of the for loop on a sample the detector raises on:             *)
(* system_monitor.sample() is done, processing_times.append is not reached   *)
PredictFails ==
    /\ pc = "loop"
    /\ nsamples < MaxSamples
    /\ cpu_usage' = Append(cpu_usage, "reading")
    /\ predict_calls' = predict_calls + 1
    /\ nsamples' = nsamples + 1
    /\ pc' = AfterPredictRaised
    /\ fixture' = -1
    /\ UNCHANGED <<iou_threshold, conf_threshold, gt_boxes, results, ri,
                   pred_boxes, pred_confs, k, gt_matched, last_iou, true_positives,
                   false_positives, false_negatives, matches, confidences,
                   precision, recall, f1_score, map_score, processing_times,
                   dataset, first, boxes_seen, preds_seen, kept>>
    /\ UNCHANGED monitorVars

(* one turn of: for box, conf in zip(...): if conf >= conf_threshold: append *)
FilterStep ==
    /\ pc = "filter"
    /\ ri <= Len(results)
    /\ IF Retained(results[ri][2])
       THEN /\ pred_boxes' = Append(pred_boxes, results[ri][1])
            /\ pred_confs' = Append(pred_confs, results[ri][2])
       ELSE UNCHANGED <<pred_boxes, pred_confs>>
    /\ ri' = ri + 1
    /\ UNCHANGED <<iou_threshold, conf_threshold, pc, nsamples, gt_boxes, results, k,
                   gt_matched, true_positives, false_positives, false_negatives,
                   last_iou, matches, confidences, precision, recall, f1_score, map_score,
                   processing_times, cpu_usage, dataset, first, predict_calls,
                   boxes_seen, preds_seen, kept, fixture>>
    /\ UNCHANGED monitorVars

(* gt_matched = np.zeros(len(gt_boxes), dtype=bool); results is not read  *)
(* again and is cleared here.                                              *)
StartMatching ==
    /\ pc = "filter"
    /\ ri > Len(results)
    /\ gt_matched' = [i \in 1..Len(gt_boxes) |-> FALSE]
    /\ k' = 1
    /\ pc' = "match"
    /\ results' = <<>>
    /\ ri' = 1
    /\ UNCHANGED <<iou_threshold, conf_threshold, nsamples, gt_boxes,
                   pred_boxes, pred_confs, last_iou, true_positives, false_positives,
                   false_negatives, matches, confidences, precision, recall,
                   f1_score, map_score, processing_times, cpu_usage, dataset,
                   first, predict_calls, boxes_seen, preds_seen, kept, fixture>>
    /\ UNCHANGED monitorVars

(* one turn of: for pred_box, conf in zip(pred_boxes, pred_confs) *)
MatchStep ==
    /\ pc = "match"
    /\ k <= Len(pred_boxes)
    /\ last_iou' = IF Len(gt_boxes) > 0
              THEN calculate_iou(pred_boxes[k], gt_boxes[Len(gt_boxes)])
              ELSE last_iou
    /\ LET best == BestMatch(pred_boxes[k], gt_boxes)
       IN  IF RaisesIndexError(best, gt_matched)
           THEN /\ pc' = "error"
                /\ UNCHANGED <<k, gt_matched, true_positives, false_positives,
                               matches, confidences>>
           ELSE /\ IF IsTruePositive(best, gt_matched)
                   THEN /\ true_positives' = true_positives + 1
                        /\ gt_matched' = [gt_matched EXCEPT
                               ![IndexPos(best.best_gt_idx, Len(gt_matched))] = TRUE]
                        /\ matches' = Append(matches, 1)
                        /\ UNCHANGED false_positives
                   ELSE /\ false_positives' = false_positives + 1
                        /\ matches' = Append(matches, 0)
                        /\ UNCHANGED <<true_positives, gt_matched>>
                /\ confidences' = Append(confidences, pred_confs[k])
                /\ k' = k + 1
                /\ UNCHANGED pc
    /\ UNCHANGED <<iou_threshold, conf_threshold, nsamples, gt_boxes, results, ri,
                   pred_boxes, pred_confs, false_negatives, precision, recall,
                   f1_score, map_score, processing_times, cpu_usage, dataset,
                   first, predict_calls, boxes_seen, preds_seen, kept, fixture>>
    /\ UNCHANGED monitorVars

(* false_negatives += np.sum(~gt_matched); the locals of the sample are dead *)
(* after it and are cleared here.                                            *)
EndSample ==
    /\ pc = "match"
    /\ k > Len(pred_boxes)
    /\ false_negatives' = AddFalseNegatives(false_negatives, gt_matched)
    /\ pc' = "loop"
    /\ gt_boxes' = <<>>
    /\ results' = <<>>
    /\ ri' = 1
    /\ pred_boxes' = <<>>
    /\ pred_confs' = <<>>
    /\ k' = 1
    /\ gt_matched' = <<>>
    /\ last_iou' = NoValue
    /\ UNCHANGED <<iou_threshold, conf_threshold, nsamples, true_positives,
                   false_positives, matches, confidences, precision, recall,
                   f1_score, map_score, processing_times, cpu_usage, dataset,
                   first, predict_calls, boxes_seen, preds_seen, kept, fixture>>
    /\ UNCHANGED monitorVars

(* the dataset is exhausted: precision, recall, f1_score, map_score, then  *)
(* system_monitor.get_statistics() and the return of the result bundle      *)
ComputeMetrics ==
    /\ pc = "loop"
    /\ nsamples >= Len(dataset)
    /\ precision' = Precision(true_positives, false_positives)
    /\ recall' = Recall(true_positives, false_negatives)
    /\ f1_score' = F1Score(precision', recall')
    /\ map_score' = calculate_map(matches, confidences)
    /\ pc' = IF GetStatisticsRaises(cpu_usage) THEN "value_error" ELSE "done"
    /\ UNCHANGED <<iou_threshold, conf_threshold, nsamples, gt_boxes, results, ri,
                   pred_boxes, pred_confs, k, gt_matched, last_iou, true_positives,
                   false_positives, false_negatives, matches, confidences,
                   processing_times, cpu_usage, dataset, first, predict_calls,
                   boxes_seen, preds_seen, kept, fixture>>
    /\ UNCHANGED monitorVars

Next ==
    \/ NextSample
    \/ ImageUnreadable
    \/ PredictFails
    \/ FilterStep
    \/ StartMatching
    \/ MatchStep
    \/ EndSample
    \/ ComputeMetrics

Spec == Init /\ [][Next]_vars

(* The metrics alone: precision, recall and f1_score computed from counts *)
(* drawn freely, the rest of the state as a run over one sample with those  *)
(* counts leaves it                                                         *)
InitMetrics ==
    /\ NoMonitor
    /\ iou_threshold \in IouThresholds
    /\ conf_threshold \in ConfThresholds
    /\ pc = "loop"
    /\ nsamples = 1
    /\ gt_boxes = <<>>
    /\ results = <<>>
    /\ ri = 1
    /\ pred_boxes = <<>>
    /\ pred_confs = <<>>
    /\ k = 1
    /\ gt_matched = <<>>
    /\ last_iou = NoValue
    /\ true_positives \in 0..MaxCount
    /\ false_positives \in 0..MaxCount
    /\ false_negatives \in 0..MaxCount
    /\ matches = [i \in 1..(true_positives + false_positives) |->
                     IF i <= true_positives THEN 1 ELSE 0]
    /\ confidences = [i \in 1..(true_positives + false_positives) |-> 9]
    /\ precision = NoValue
    /\ recall = NoValue
    /\ f1_score = NoValue
    /\ map_score = NoValue
    /\ processing_times = <<"elapsed">>
    /\ cpu_usage = <<"reading">>
    /\ dataset = <<>>
    /\ first = NoValue
    /\ predict_calls = 1
    /\ boxes_seen = true_positives + false_negatives
    /\ preds_seen = true_positives + false_positives
    /\ kept = true_positives + false_positives
    /\ fixture = -1

NextMetrics == ComputeMetrics

SpecMetrics == InitMetrics /\ [][NextMetrics]_vars

(* Perfect detections: every prediction of a sample is one of its          *)
(* ground-truth boxes, each box predicted at most once, with confidence 1.0 *)
(* (10 tenths); the boxes are BoxA, BoxB inside it and BoxZ of zero area.  *)
(* The samples drawn are kept in dataset.                                   *)
BoxZ == <<5, 5, 5, 5>>
AllPerfectGtSets == SeqsUpTo({BoxA, BoxB, BoxZ}, MaxBoxes)
Injections(n, m) ==
    {sel \in SeqsUpTo(1..n, m) : \A i, j \in 1..Len(sel) : i # j => sel[i] # sel[j]}
PerfectSamples(b, p) ==
    UNION {{[boxes |-> gt, preds |-> [i \in 1..Len(sel) |-> <<gt[sel[i]], 10>>]] :
               sel \in Injections(Len(gt), Min(p, Len(gt)))} :
           gt \in {g \in AllPerfectGtSets : Len(g) <= b}}

NextPerfectSample ==
    /\ pc = "loop"
    /\ nsamples < MaxSamples
    /\ \E data \in PerfectSamples(MaxBoxes - boxes_seen, MaxPreds - preds_seen) :
          /\ Iteration(data)
          /\ dataset' = Append(dataset, data)
    /\ fixture' = -1

NextPerfect ==
    \/ NextPerfectSample
    \/ FilterStep
    \/ StartMatching
    \/ MatchStep
    \/ EndSample
    \/ ComputeMetrics

(* a confidence of 1.0 passes every threshold of ConfThresholds: one of    *)
(* them stands for all                                                      *)
InitPerfect == Init /\ conf_threshold = 3

SpecPerfect == InitPerfect /\ [][NextPerfect]_vars

(* Two evaluations of one dataset: evaluate_model is called on a dataset,  *)
(* whose samples are kept in dataset as they are drawn, and once it has     *)
(* returned or raised, its outcome is kept in first and evaluate_model is   *)
(* called again on a permutation of the dataset.                            *)
(* The samples of these datasets have at most one ground-truth box, BoxA,   *)
(* and at most one prediction, of BoxA or BoxC.                              *)
PermSamples ==
    {[boxes |-> gt, preds |-> res] :
        gt \in SeqsUpTo({BoxA}, 1), res \in SeqsUpTo({BoxA, BoxC} \X Confs, 1)}

InitPerm == Init /\ conf_threshold = 3

NextFirstSample ==
    /\ pc = "loop"
    /\ first = NoValue
    /\ nsamples < MaxSamples
    /\ \E data \in PermSamples :
          /\ Iteration(data)
          /\ dataset' = Append(dataset, data)
    /\ fixture' = -1

(* for data in dataset: the next sample of a dataset fixed in advance *)
NextDatasetSample ==
    /\ pc = "loop"
    /\ first # NoValue
    /\ nsamples < Len(dataset)
    /\ Iteration(dataset[nsamples + 1])
    /\ UNCHANGED <<dataset, fixture>>

(* the second call of evaluate_model, on the dataset ds: system_monitor =  *)
(* SystemMonitor(), the counts 0, matches, confidences and                  *)
(* processing_times empty                                                   *)
SecondCall(ds) ==
    /\ pc \in {"done", "error", "value_error"}
    /\ first = NoValue
    /\ dataset' = ds
    /\ first' = [pc |-> pc, true_positives |-> true_positives,
                 false_positives |-> false_positives,
                 false_negatives |-> false_negatives,
                 matches |-> matches, confidences |-> confidences,
                 recall |-> recall, map_score |-> map_score]
    /\ pc' = "loop"
    /\ nsamples' = 0
    /\ gt_boxes' = <<>>
    /\ results' = <<>>
    /\ ri' = 1
    /\ pred_boxes' = <<>>
    /\ pred_confs' = <<>>
    /\ k' = 1
    /\ gt_matched' = <<>>
    /\ last_iou' = NoValue
    /\ true_positives' = 0
    /\ false_positives' = 0
    /\ false_negatives' = 0
    /\ matches' = <<>>
    /\ confidences' = <<>>
    /\ precision' = NoValue
    /\ recall' = NoValue
    /\ f1_score' = NoValue
    /\ map_score' = NoValue
    /\ processing_times' = <<>>
    /\ cpu_usage' = <<>>
    /\ predict_calls' = 0
    /\ boxes_seen' = 0
    /\ preds_seen' = 0
    /\ kept' = 0
    /\ UNCHANGED <<iou_threshold, conf_threshold, fixture>>
    /\ UNCHANGED monitorVars

(* evaluate_model called again on a permutation of the dataset *)
EvaluateAgain ==
    \E perm \in Permutations(1..Len(dataset)) :
        SecondCall([i \in 1..Len(dataset) |-> dataset[perm[i]]])

NextPerm ==
    \/ NextFirstSample
    \/ NextDatasetSample
    \/ FilterStep
    \/ StartMatching
    \/ MatchStep
    \/ EndSample
    \/ ComputeMetrics
    \/ EvaluateAgain

SpecPerm == InitPerm /\ [][NextPerm]_vars

(* Two evaluations of one sample: evaluate_model is called on a dataset of *)
(* one sample, and once it has returned or raised it is called again on the *)
(* same sample with the detector's predictions in another order.            *)
(* The ground-truth boxes are BoxA and BoxB inside it; the predictions are  *)
(* BoxA with either confidence and BoxC, which meets neither.               *)
OrderSamples ==
    {[boxes |-> gt, preds |-> res] :
        gt \in SeqsUpTo({BoxA, BoxB}, MaxBoxes),
        res \in SeqsUpTo({<<BoxA, 9>>, <<BoxA, 8>>, <<BoxC, 9>>}, MaxPreds)}

NextOnlySample ==
    /\ pc = "loop"
    /\ first = NoValue
    /\ nsamples = 0
    /\ \E data \in OrderSamples :
          /\ Iteration(data)
          /\ dataset' = <<data>>
    /\ fixture' = -1

Reordered(data, perm) ==
    [data EXCEPT !.preds = [i \in 1..Len(data.preds) |-> data.preds[perm[i]]]]

EvaluateReordered ==
    /\ Len(dataset) = 1
    /\ \E perm \in Permutations(1..Len(dataset[1].preds)) :
          SecondCall(<<Reordered(dataset[1], perm)>>)

NextOrder ==
    \/ NextOnlySample
    \/ NextDatasetSample
    \/ FilterStep
    \/ StartMatching
    \/ MatchStep
    \/ EndSample
    \/ ComputeMetrics
    \/ EvaluateReordered

SpecOrder == Init /\ [][NextOrder]_vars

(* Two evaluations, the second with one more sample: evaluate_model is     *)
(* called on a dataset, and once it has returned or raised it is called     *)
(* again on that dataset with one sample added anywhere, a sample with a    *)
(* ground-truth box and no prediction, or one prediction of confidence 0.8. *)
(* The samples of the first dataset have at most one ground-truth box,      *)
(* BoxA, and at most one prediction, of BoxA or BoxC with confidence 0.9.   *)
MissSamples ==
    {[boxes |-> gt, preds |-> res] :
        gt \in SeqsUpTo({BoxA}, 1), res \in SeqsUpTo({<<BoxA, 9>>, <<BoxC, 9>>}, 1)}

ExtraSamples ==
    {[boxes |-> <<BoxA>>, preds |-> res] : res \in SeqsUpTo({<<BoxA, 8>>}, 1)}

InsertAt(ds, i, x) == SubSeq(ds, 1, i - 1) \o <<x>> \o SubSeq(ds, i, Len(ds))

InitMiss == Init /\ conf_threshold = 9

NextMissSample ==
    /\ pc = "loop"
    /\ first = NoValue
    /\ nsamples < MaxSamples
    /\ \E data \in MissSamples :
          /\ Iteration(data)
          /\ dataset' = Append(dataset, data)
    /\ fixture' = -1

EvaluateWithExtra ==
    \E i \in 1..(Len(dataset) + 1), x \in ExtraSamples :
        SecondCall(InsertAt(dataset, i, x))

NextMiss ==
    \/ NextMissSample
    \/ NextDatasetSample
    \/ FilterStep
    \/ StartMatching
    \/ MatchStep
    \/ EndSample
    \/ ComputeMetrics
    \/ EvaluateWithExtra

SpecMiss == InitMiss /\ [][NextMiss]_vars

(* calculate_iou alone: one call on a pair of well-formed boxes (x_min <=   *)
(* x_max, y_min <= y_max) with coordinates in 0..MaxCoord, zero-area boxes  *)
(* included                                                                  *)
WellFormedBoxes ==
    {b \in (0..MaxCoord) \X (0..MaxCoord) \X (0..MaxCoord) \X (0..MaxCoord) :
        b[1] <= b[3] /\ b[2] <= b[4]}

InitIou ==
    /\ NoMonitor
    /\ iou_threshold = 5
    /\ conf_threshold = 3
    /\ pc = "iou"
    /\ nsamples = 0
    /\ gt_boxes \in {<<b>> : b \in WellFormedBoxes}
    /\ results = <<>>
    /\ ri = 1
    /\ pred_boxes \in {<<b>> : b \in WellFormedBoxes}
    /\ pred_confs = <<9>>
    /\ k = 1
    /\ gt_matched = <<FALSE>>
    /\ last_iou = NoValue
    /\ true_positives = 0
    /\ false_positives = 0
    /\ false_negatives = 0
    /\ matches = <<>>
    /\ confidences = <<>>
    /\ precision = NoValue
    /\ recall = NoValue
    /\ f1_score = NoValue
    /\ map_score = NoValue
    /\ processing_times = <<>>
    /\ cpu_usage = <<>>
    /\ dataset = <<>>
    /\ first = NoValue
    /\ predict_calls = 0
    /\ boxes_seen = 0
    /\ preds_seen = 0
    /\ kept = 0
    /\ fixture = -1

(* iou = calculate_iou(pred_box, gt_box) *)
CallIou ==
    /\ pc = "iou"
    /\ last_iou' = calculate_iou(pred_boxes[k], gt_boxes[1])
    /\ pc' = "iou_done"
    /\ UNCHANGED <<iou_threshold, conf_threshold, nsamples, gt_boxes, results, ri,
                   pred_boxes, pred_confs, k, gt_matched, true_positives,
                   false_positives, false_negatives, matches, confidences,
                   precision, recall, f1_score, map_score, processing_times,
                   cpu_usage, dataset, first, predict_calls, boxes_seen,
                   preds_seen, kept, fixture>>
    /\ UNCHANGED monitorVars

NextIou == CallIou

SpecIou == InitIou /\ [][NextIou]_vars

----------------------------------------------------------------------------
(* Notions the properties are stated in *)

Ones(s) == Cardinality({i \in 1..Len(s) : s[i] = 1})
LastN(s, n) == SubSeq(s, Len(s) - n + 1, Len(s))
IsPrefix(s, t) == Len(s) <= Len(t) /\ SubSeq(t, 1, Len(s)) = s
InMatching == pc \in {"match", "error"}

(* the labels and confidences recorded so far for the current sample *)
SampleMatches == LastN(matches, k - 1)
SampleConfs == LastN(confidences, k - 1)

(* the maximum IoU of a box over gt, and the lowest index attaining it *)
IouAt(box, gt, i) == calculate_iou(box, gt[i])
MaxIouIdx(box, gt) ==
    CHOOSE i \in 1..Len(gt) :
        /\ \A j \in 1..Len(gt) : QLeq(IouAt(box, gt, j), IouAt(box, gt, i))
        /\ \A j \in 1..(i - 1) : QLess(IouAt(box, gt, j), IouAt(box, gt, i))
MaxIouMeets(box, gt) ==
    Len(gt) > 0 /\ QLeq(QTenths(iou_threshold), IouAt(box, gt, MaxIouIdx(box, gt)))

(* the retained predictions of the sample whose best match, with IoU >=    *)
(* iou_threshold, is the best match of the j-th                            *)
SameBest(j) ==
    {i \in 1..Len(pred_boxes) :
        /\ MaxIouMeets(pred_boxes[i], gt_boxes)
        /\ MaxIouIdx(pred_boxes[i], gt_boxes) = MaxIouIdx(pred_boxes[j], gt_boxes)}

(* the predictions of res with conf >= conf_threshold, in order *)
RECURSIVE Surviving(_)
Surviving(res) ==
    IF res = <<>> THEN <<>>
    ELSE IF Head(res)[2] >= conf_threshold
         THEN <<Head(res)>> \o Surviving(Tail(res))
         ELSE Surviving(Tail(res))

(* q is within 1/1000 of a/b; q is defined and in [0,1] *)
QApprox(q, a, b) ==
    LET target == <<FxInt(a), FxInt(b)>>
        tol == <<FxInt(1), FxInt(1000)>>
    IN  QLeq(q, QAdd(target, tol)) /\ QLeq(target, QAdd(q, tol))
QInUnit(q) == QDefined(q) /\ QLeq(QInt(0), q) /\ QLeq(q, QInt(1))
QEq(p, q) == QLeq(p, q) /\ QLeq(q, p)

(* the records <<label, confidence>> of ms1, cs1 are those of ms2, cs2,    *)
(* each as many times                                                       *)
RecordCount(ms, cs, r) == Cardinality({i \in 1..Len(ms) : <<ms[i], cs[i]>> = r})
SameRecords(ms1, cs1, ms2, cs2) ==
    /\ Len(ms1) = Len(ms2)
    /\ Len(cs1) = Len(cs2)
    /\ \A i \in 1..Len(ms1) :
          RecordCount(ms1, cs1, <<ms1[i], cs1[i]>>) = RecordCount(ms2, cs2, <<ms1[i], cs1[i]>>)

(* a bound on the steps evaluate_model has left: the turns of the three    *)
(* loops still to come, on a dataset of at most SampleCap samples with at   *)
(* most PredCap predictions each                                            *)
Terminal == pc \in {"done", "value_error", "error", "predict_error", "cv2_error"}
SampleCap == Max(MaxSamples, Len(E2EDataset))
PredCap == Max(MaxPreds, 1)
TurnCost == 2 * PredCap + 3
StepsLeft ==
    IF Terminal THEN 0
    ELSE (SampleCap - nsamples) * TurnCost + 1
         + (CASE pc = "loop" -> 0
              [] pc = "filter" -> 2 * (Len(results) - ri + 1) + Len(pred_boxes) + 2
              [] pc = "match" -> Len(pred_boxes) - k + 2)

AllOnes(s) == \A i \in 1..Len(s) : s[i] = 1
Area(b) == (b[3] - b[1]) * (b[4] - b[2])

(* the predictions of sample s are pairwise different boxes of positive area *)
DifferentPositive(s) ==
    \A i \in 1..Len(s.preds) :
        /\ Area(s.preds[i][1]) > 0
        /\ \A j \in 1..Len(s.preds) : i # j => s.preds[i][1] # s.preds[j][1]

(* the areas a value of calculate_iou was computed from: the numerator and *)
(* the whole part of the denominator                                        *)
IntersectionArea(q) == q[1][1]
UnionArea(q) == q[2][1]

----------------------------------------------------------------------------
(* C1: within the matching of one sample, the predictions recorded as true *)
(* positives are as many as the ground-truth boxes marked matched, each     *)
(* marking a box of its own, and never more than the ground-truth boxes.    *)
C1_AtMostOneClaim ==
    InMatching =>
        /\ Len(gt_matched) = Len(gt_boxes)
        /\ Ones(SampleMatches) = CountMatched(gt_matched)
        /\ Ones(SampleMatches) <= Len(gt_boxes)

C1_Witness ==
    /\ pc = "match"
    /\ Len(gt_boxes) = 1
    /\ k = 3
    /\ SampleMatches = <<1, 0>>
    /\ iou_threshold = 5

(* C2: what a sample adds to false_negatives is the number of its          *)
(* ground-truth boxes no prediction was recorded as a true positive for,   *)
(* the number of entries of gt_matched still false.                        *)
C2_FalseNegativesAdded ==
    [][(pc = "match" /\ pc' = "loop") =>
          /\ false_negatives' - false_negatives = Len(gt_boxes) - Ones(SampleMatches)
          /\ false_negatives' - false_negatives = Len(gt_matched) - CountMatched(gt_matched)]_vars

C2_Witness ==
    /\ pc = "loop"
    /\ nsamples = 1
    /\ boxes_seen = 2
    /\ true_positives = 1
    /\ false_negatives = 1

(* C3: matches and confidences have one entry per retained prediction     *)
(* processed, true_positives + false_positives entries in all, as many as  *)
(* the detector's predictions with conf >= conf_threshold once a sample is *)
(* finished, and the i-th confidence is that of the i-th label's prediction *)
C3_RecordLength ==
    /\ Len(matches) = Len(confidences)
    /\ Len(matches) = true_positives + false_positives
    /\ pc \in {"loop", "done"} => Len(matches) = kept
    /\ InMatching =>
          /\ Len(pred_confs) = Len(pred_boxes)
          /\ k - 1 <= Len(pred_confs)
          /\ SampleConfs = SubSeq(pred_confs, 1, k - 1)
          /\ Len(matches) + (Len(pred_confs) - (k - 1)) = kept

C3_Witness ==
    /\ pc = "loop"
    /\ nsamples = 2
    /\ preds_seen = 2
    /\ matches = <<1, 0>>
    /\ confidences = <<9, 8>>
    /\ conf_threshold = 3

(* C4: a retained prediction is recorded as a true positive, and its best  *)
(* box marked, exactly when its maximum IoU over the ground-truth boxes is  *)
(* >= iou_threshold and the box attaining it is not yet matched; otherwise  *)
(* it is recorded as a false positive and no box is marked.                 *)
C4_TruePositiveIff ==
    [][(pc = "match" /\ k <= Len(pred_boxes)) =>
          LET box == pred_boxes[k]
              g == MaxIouIdx(box, gt_boxes)
          IN  IF MaxIouMeets(box, gt_boxes) /\ ~gt_matched[g]
              THEN /\ matches' = Append(matches, 1)
                   /\ true_positives' = true_positives + 1
                   /\ false_positives' = false_positives
                   /\ gt_matched' = [gt_matched EXCEPT ![g] = TRUE]
              ELSE /\ matches' = Append(matches, 0)
                   /\ false_positives' = false_positives + 1
                   /\ true_positives' = true_positives
                   /\ gt_matched' = gt_matched]_vars

(* C5: of the retained predictions of a sample that share one ground-truth *)
(* box as best match with IoU >= iou_threshold, two or more of them, the    *)
(* first in detector order is recorded as a true positive and every later   *)
(* one as a false positive.                                                 *)
C5_FirstWins ==
    [][(/\ pc = "match"
        /\ k <= Len(pred_boxes)
        /\ MaxIouMeets(pred_boxes[k], gt_boxes)
        /\ Cardinality(SameBest(k)) >= 2) =>
          matches' = Append(matches, IF \A i \in SameBest(k) : k <= i THEN 1 ELSE 0)]_vars

(* C6: for a sample with no ground-truth box, whatever iou_threshold is,   *)
(* no error is raised, every retained prediction is recorded as a false     *)
(* positive, and nothing is added to false_negatives.                       *)
C6_EmptyGroundTruth ==
    /\ (InMatching /\ Len(gt_boxes) = 0) =>
          /\ pc # "error"
          /\ \A i \in 1..Len(SampleMatches) : SampleMatches[i] = 0
    /\ boxes_seen = 0 => false_negatives = 0

(* C7: a prediction with conf < conf_threshold changes nothing of the      *)
(* evaluation state and never reaches the matching; one with conf equal to  *)
(* conf_threshold is retained.                                              *)
C7_BelowThresholdDropped ==
    /\ [](pc = "filter" =>
            LET kept_so_far == Surviving(SubSeq(results, 1, ri - 1))
            IN  /\ pred_boxes = [i \in 1..Len(kept_so_far) |-> kept_so_far[i][1]]
                /\ pred_confs = [i \in 1..Len(kept_so_far) |-> kept_so_far[i][2]])
    /\ [][(pc = "filter" /\ ri <= Len(results)) =>
            IF results[ri][2] < conf_threshold
            THEN UNCHANGED <<pred_boxes, pred_confs, gt_matched, true_positives,
                             false_positives, false_negatives, matches, confidences>>
            ELSE /\ pred_boxes' = Append(pred_boxes, results[ri][1])
                 /\ pred_confs' = Append(pred_confs, results[ri][2])]_vars

C7_Witness ==
    /\ pc = "filter"
    /\ ri = 3
    /\ results[1][2] < conf_threshold
    /\ results[2][2] = conf_threshold
    /\ pred_confs = <<conf_threshold>>
    /\ Len(matches) = 0

(* C8: the three counts are non-negative and never decrease, and matches   *)
(* and confidences only grow at the end.                                    *)
C8_Monotone ==
    /\ [](true_positives >= 0 /\ false_positives >= 0 /\ false_negatives >= 0)
    /\ [][/\ true_positives' >= true_positives
          /\ false_positives' >= false_positives
          /\ false_negatives' >= false_negatives
          /\ IsPrefix(matches, matches')
          /\ IsPrefix(confidences, confidences')]_vars

C8_Witness ==
    /\ pc = "loop"
    /\ nsamples = 2
    /\ true_positives = 1
    /\ false_positives = 1
    /\ false_negatives = 1
    /\ Len(matches) = 2

(* C9: the two-sample end-to-end dataset under iou_threshold 0.5 and       *)
(* conf_threshold 0.3 ends with 2 true positives, 0 false positives, 1      *)
(* false negative, matches [1, 1], precision about 1, recall about 2/3 and  *)
(* F1 about 0.8.                                                            *)
C9_EndToEnd ==
    (pc = "done" /\ fixture = Len(E2EDataset)) =>
        /\ true_positives = 2
        /\ false_positives = 0
        /\ false_negatives = 1
        /\ matches = <<1, 1>>
        /\ QApprox(precision, 1, 1)
        /\ QApprox(recall, 2, 3)
        /\ QApprox(f1_score, 8, 10)

C9_Witness ==
    /\ pc = "done"
    /\ fixture = Len(E2EDataset)
    /\ iou_threshold = 5
    /\ conf_threshold = 3
    /\ confidences = <<9, 8>>

(* C10: for all counts, precision, recall and F1 are defined, lie in [0,1] *)
(* and are all 0 when the three counts are 0.                               *)
C10_MetricsInUnit ==
    pc = "done" =>
        /\ QInUnit(precision)
        /\ QInUnit(recall)
        /\ QInUnit(f1_score)
        /\ (true_positives = 0 /\ false_positives = 0 /\ false_negatives = 0) =>
              (QIsZero(precision) /\ QIsZero(recall) /\ QIsZero(f1_score))

C10_Witness ==
    /\ pc = "done"
    /\ true_positives = 0
    /\ false_positives = 0
    /\ false_negatives = 0

(* C11: for every pair of well-formed boxes, zero-area boxes included,     *)
(* calculate_iou divides by a non-zero number and returns a value in        *)
(* [0, 1]: the intersection area is not negative and not above the union    *)
(* area.                                                                    *)
C11_IouInUnit ==
    pc = "iou_done" =>
        /\ QDefined(last_iou)
        /\ QLeq(QInt(0), last_iou)
        /\ QLeq(last_iou, QInt(1))
        /\ 0 <= IntersectionArea(last_iou)
        /\ IntersectionArea(last_iou) <= UnionArea(last_iou)

C11_Witness ==
    /\ pc = "iou_done"
    /\ pred_boxes[1] = gt_boxes[1]
    /\ pred_boxes[1][1] = pred_boxes[1][3]
    /\ QIsZero(last_iou)

(* C12 as stated: for a non-empty dataset in which every prediction equals *)
(* a ground-truth box of its sample, no box predicted twice, with           *)
(* confidence 1.0, every match record is 1 and calculate_map returns 1.0.   *)
C12_PerfectOriginal ==
    (pc = "done" /\ Len(dataset) > 0) =>
        (AllOnes(matches) /\ QEq(map_score, QInt(1)))

(* C12, amended: for a dataset with at least one retained prediction in    *)
(* which every prediction has confidence 1.0 and equals a ground-truth box  *)
(* of its sample, the predictions of a sample being pairwise different      *)
(* boxes of positive area, every match record is 1 and calculate_map        *)
(* returns 1.0.                                                             *)
C12_PerfectDetections ==
    (/\ pc = "done"
     /\ Len(matches) > 0
     /\ \A n \in 1..Len(dataset) : DifferentPositive(dataset[n])) =>
        (AllOnes(matches) /\ QEq(map_score, QInt(1)))

C12_Witness ==
    /\ pc = "done"
    /\ Len(dataset) = 2
    /\ \A n \in 1..Len(dataset) : DifferentPositive(dataset[n])
    /\ matches = <<1, 1>>
    /\ confidences = <<10, 10>>
    /\ QEq(map_score, QInt(1))

(* C13: evaluate_model raises on no dataset, one with zero samples and     *)
(* ones where no prediction is retained included, and the precision,        *)
(* recall and F1 of the bundle it returns are defined, in [0, 1], and all 0 *)
(* when the three counts are 0.                                             *)
C13_DegenerateTotals ==
    /\ pc \notin {"error", "value_error"}
    /\ pc = "done" =>
          /\ QInUnit(precision) /\ QInUnit(recall) /\ QInUnit(f1_score)
          /\ (true_positives + false_positives + false_negatives = 0) =>
                (QIsZero(precision) /\ QIsZero(recall) /\ QIsZero(f1_score))

(* C14: a predict call that raised leaves evaluate_model: from then on     *)
(* nothing changes (no later sample, no second predict call for the         *)
(* sample), no prediction stands in for the detector's, and no metric of a  *)
(* result bundle is computed.                                               *)
C14_PredictPropagates ==
    /\ [](Len(processing_times) < predict_calls => pc = "predict_error")
    /\ [](pc = "predict_error" =>
            /\ predict_calls = nsamples
            /\ Len(processing_times) = nsamples - 1
            /\ results = <<>> /\ pred_boxes = <<>>
            /\ precision = NoValue /\ recall = NoValue
            /\ f1_score = NoValue /\ map_score = NoValue)
    /\ [][pc = "predict_error" => UNCHANGED vars]_vars

C14_Witness ==
    /\ pc = "predict_error"
    /\ nsamples = 2
    /\ predict_calls = 2
    /\ true_positives = 1
    /\ Len(processing_times) = 1

(* C15: the evaluation of a permutation of a dataset ends as the           *)
(* evaluation of the dataset does, with the same true_positives,            *)
(* false_positives and false_negatives, and with the same records (label,   *)
(* confidence) in matches and confidences, each as many times, in an order  *)
(* that may differ.                                                         *)
C15_OrderIndependentCounts ==
    (first # NoValue /\ pc \in {"done", "error", "value_error"}) =>
        /\ pc = first.pc
        /\ pc = "done" =>
              /\ true_positives = first.true_positives
              /\ false_positives = first.false_positives
              /\ false_negatives = first.false_negatives
              /\ SameRecords(matches, confidences, first.matches, first.confidences)

C15_Witness ==
    /\ first # NoValue
    /\ pc = "done"
    /\ first.matches = <<1, 0>>
    /\ matches = <<0, 1>>
    /\ true_positives = 1
    /\ false_negatives = 1

(* C16: an image that is missing or cannot be decoded does not end the     *)
(* evaluation: its sample is skipped and the for loop goes on.              *)
C16_UnreadableSkipped == pc # "cv2_error"

(* C17: with ground-truth boxes present, the box a retained prediction is  *)
(* tested against for being already matched, and the only box it may mark,  *)
(* is the lowest-index box among those of maximum IoU, also when every IoU  *)
(* is 0.                                                                    *)
C17_LowestIndexBest ==
    [][(pc = "match" /\ k <= Len(pred_boxes) /\ Len(gt_boxes) > 0) =>
          LET g == MaxIouIdx(pred_boxes[k], gt_boxes)
          IN  /\ \A i \in 1..Len(gt_boxes) : gt_matched'[i] # gt_matched[i] => i = g
              /\ MaxIouMeets(pred_boxes[k], gt_boxes) =>
                    matches' = Append(matches, IF gt_matched[g] THEN 0 ELSE 1)]_vars

(* C18: a prediction whose maximum-IoU box is already matched is recorded  *)
(* as a false positive and marks no box, also when another box, not yet     *)
(* matched, has IoU >= iou_threshold with it.                               *)
C18_MatchedBestIsFalsePositive ==
    [][(/\ pc = "match"
        /\ k <= Len(pred_boxes)
        /\ Len(gt_boxes) > 0
        /\ gt_matched[MaxIouIdx(pred_boxes[k], gt_boxes)]
        /\ \E j \in 1..Len(gt_boxes) :
              /\ ~gt_matched[j]
              /\ QLeq(QTenths(iou_threshold), IouAt(pred_boxes[k], gt_boxes, j))) =>
          /\ matches' = Append(matches, 0)
          /\ false_positives' = false_positives + 1
          /\ true_positives' = true_positives
          /\ gt_matched' = gt_matched]_vars

(* C19: model.predict is invoked once per sample; when it is invoked the   *)
(* samples before are finished (their predictions all recorded, their       *)
(* ground-truth boxes all counted, no sample in progress);                  *)
(* processing_times has one entry per sample predict returned for; and the  *)
(* evaluation comes to an end: every step makes StepsLeft, which is never   *)
(* negative, smaller.                                                       *)
C19_Sequential ==
    /\ [](predict_calls = nsamples)
    /\ [](Len(processing_times) = IF pc = "predict_error" THEN nsamples - 1 ELSE nsamples)
    /\ [][predict_calls' # predict_calls =>
            /\ predict_calls' = predict_calls + 1
            /\ pc = "loop"
            /\ Len(matches) = kept
            /\ true_positives + false_positives = kept
            /\ true_positives + false_negatives = boxes_seen
            /\ Len(processing_times) = nsamples
            /\ gt_boxes = <<>> /\ pred_boxes = <<>> /\ gt_matched = <<>>]_vars
    /\ [](StepsLeft >= 0)
    /\ [][StepsLeft' < StepsLeft]_vars

C19_Witness ==
    /\ pc = "done"
    /\ nsamples = 2
    /\ predict_calls = 2
    /\ Len(processing_times) = 2
    /\ Len(matches) = 2
    /\ true_positives = 2

(* C20: no turn of the evaluation loop takes a resource sample: the number *)
(* of samples SystemMonitor holds does not depend on the number of samples  *)
(* the loop processes.                                                      *)
C20_SamplingDecoupled ==
    [][nsamples' # nsamples => cpu_usage' = cpu_usage]_vars

(* C21: every ground-truth box of the samples processed is counted once,   *)
(* as a true positive or as a false negative: between samples and at the    *)
(* end true_positives + false_negatives is the number of ground-truth boxes *)
(* of the samples processed so far, and while a sample is matched the       *)
(* boxes counted are those of the earlier samples and the boxes of this     *)
(* sample marked in gt_matched, for every iou_threshold and conf_threshold. *)
C21_BoxesCountedOnce ==
    /\ pc \in {"loop", "done"} =>
          true_positives + false_negatives = boxes_seen
    /\ InMatching =>
          /\ Len(gt_matched) = Len(gt_boxes)
          /\ true_positives + false_negatives
                = boxes_seen - Len(gt_boxes) + CountMatched(gt_matched)

C21_Witness ==
    /\ pc = "loop"
    /\ iou_threshold = 0
    /\ nsamples = 2
    /\ boxes_seen = 2
    /\ true_positives = 1
    /\ false_negatives = 1
    /\ false_positives = 1

(* C22: the evaluation of one sample with its predictions in another order *)
(* ends as the first does and adds the same numbers of true positives,      *)
(* false positives and false negatives, with as many labels 1 in matches;   *)
(* which prediction carries the label 1 may differ.                         *)
C22_PredictionOrderCounts ==
    (first # NoValue /\ pc \in {"done", "error", "value_error"}) =>
        /\ pc = first.pc
        /\ pc = "done" =>
              /\ true_positives = first.true_positives
              /\ false_positives = first.false_positives
              /\ false_negatives = first.false_negatives
              /\ Len(matches) = Len(first.matches)
              /\ Ones(matches) = Ones(first.matches)

C22_Witness ==
    /\ first # NoValue
    /\ pc = "done"
    /\ first.matches = <<1, 0>>
    /\ first.confidences = <<9, 8>>
    /\ matches = <<1, 0>>
    /\ confidences = <<8, 9>>
    /\ true_positives = 1
    /\ false_positives = 1

(* two evaluations that returned, with the same matches and confidences    *)
(* and different false_negatives                                            *)
SameRecordsOtherMisses ==
    /\ first # NoValue
    /\ pc = "done"
    /\ first.pc = "done"
    /\ matches = first.matches
    /\ confidences = first.confidences
    /\ false_negatives # first.false_negatives

(* C23 as stated: two runs with the same matches and confidences and       *)
(* different false_negatives have the same mAP and a different recall.      *)
C23_MapOnlyOriginal ==
    SameRecordsOtherMisses =>
        (QEq(map_score, first.map_score) /\ ~QEq(recall, first.recall))

(* C23, amended: two runs with the same matches and confidences and        *)
(* different false_negatives have the same mAP; their recall differs if     *)
(* and only if they have a true positive (without one it is 0 in both).     *)
C23_MapIgnoresMisses ==
    SameRecordsOtherMisses =>
        /\ QEq(map_score, first.map_score)
        /\ ~QEq(recall, first.recall) <=> true_positives > 0
        /\ true_positives = 0 => (QIsZero(recall) /\ QIsZero(first.recall))

C23_Witness ==
    /\ SameRecordsOtherMisses
    /\ matches = <<1, 0>>
    /\ first.false_negatives = 0
    /\ false_negatives = 1
    /\ QEq(map_score, first.map_score)
    /\ QLess(QInt(0), map_score)
    /\ QLess(recall, first.recall)

(* a thread that is alive and appends: it is past the test of its loop, or *)
(* the test will pass                                                       *)
Sampling(i) ==
    /\ Alive(i)
    /\ threads[i].pc \in {"measure", "append"} \/ monitoring

NonDecreasing(s) == \A i \in 1..(Len(s) - 1) : s[i] <= s[i + 1]

(* C24: over any calls of start_monitoring and stop_monitoring, with joins *)
(* that may time out, at most one _monitoring_loop thread is alive and      *)
(* appending at any time, and nothing is appended to the lists between the  *)
(* return of stop_monitoring and the next start_monitoring.                 *)
C24_SingleSampler ==
    /\ [](Cardinality({i \in DOMAIN threads : Sampling(i)}) <= 1)
    /\ [][(~monitoring /\ caller = "idle") => Len(timestamps') <= Len(timestamps)]_vars

(* C25: timestamps never decreases along the list, and every entry is the  *)
(* time from the most recent start_monitoring to its measurement: no entry  *)
(* of an earlier monitoring period is left after a restart.                 *)
C25_TimestampsFromLastStart ==
    /\ NonDecreasing(timestamps)
    /\ \A j \in DOMAIN timestamps :
          /\ taken_at[j] >= start_time
          /\ timestamps[j] = taken_at[j] - start_time

====
